---- MODULE Spec2Model ----
(***************************************************************************)
(* memscav: scavenger of memory hidden from the kernel                     *)
(* (drivers/misc/memscav.c).                                               *)
(*                                                                         *)
(* Physical addresses are unsigned integers of AddrBits bits (u64 in the   *)
(* driver); every address computation of the driver is reduced modulo      *)
(* AddrSpace.  One address unit of the model stands for 0x400 bytes, so    *)
(* the block size 0x1000 of the worked scenario is block_sz = 4.           *)
(***************************************************************************)
EXTENDS Integers, Sequences, FiniteSets, TLC

\* ------------------------------------------------------------------ bounds
AddrBits == 6
MaxFw == 2
MaxAlloc == 7

\* memory_block_size_bytes(): a power of two, fixed for the lifetime.
block_sz == 4
\* EFI pages are half a memory block here (size = num_pages << EFI_PAGE_SHIFT).
EFI_PAGE_SHIFT == 1

RECURSIVE Pow2(_)
Pow2(n) == IF n = 0 THEN 1 ELSE 2 * Pow2(n - 1)

AddrSpace == Pow2(AddrBits)

\* Arithmetic on unsigned long long.
U64(x) == x % AddrSpace

Procs == {1, 2}
NULL == [id |-> 0, phys |-> 0]

VARIABLES
    pc,                 \* position of the module: start, scan, live, failed, exited
    efi_enabled,        \* efi_enabled(EFI_MEMMAP)
    fw,                 \* what the firmware provider reports
    tracked,            \* the resource tracker: spans <<lo, hi>> it knows
    refused,            \* block addresses the memory manager refuses to add
    memscav_kobj,       \* the "memscav" kobject exists
    sysfs_group,        \* the attribute group (ranges, scavenge, ...) exists
    ranges,             \* struct range *ranges (ranges_len = Len(ranges))
    hidden_blocks,      \* LIST_HEAD(hidden_blocks), head first
    hidden_blocks_cnt,
    unloadable,
    scan_i, scan_start, \* find_hidden_blocks: i and start
    free_reported,      \* addresses region_intersects reported disjoint
    attempts,           \* id of a hidden block -> registration calls made for it
    sc,                 \* per writer: where its scavenge_store stands
    last                \* what the last handler did and returned

vars == <<pc, efi_enabled, fw, tracked, refused, memscav_kobj, sysfs_group,
          ranges, hidden_blocks, hidden_blocks_cnt, unloadable, scan_i,
          scan_start, free_reported, attempts, sc, last>>

\* ------------------------------------------------------------ pure helpers
ranges_len == Len(ranges)

\* ALIGN that forgets to round.
ALIGN_none(x, a) == x

ALIGN(x, a) == LET y == U64(x + (a - 1)) IN y - (y % a)

\* An alignment check that lets everything through.
IS_ALIGNED_any(x, a) == TRUE

IS_ALIGNED(x, a) == x % a = 0

Min(a, b) == IF a < b THEN a ELSE b

Drop(s, n) == SubSeq(s, n + 1, Len(s))

Phys(s) == [k \in 1..Len(s) |-> s[k].phys]

Ids(s) == {s[k].id : k \in 1..Len(s)}

\* range_len() of linux/range.h
range_len(r) == U64(r.end - r.start + 1)

\* region_intersects(start, size, ...) != REGION_DISJOINT
region_intersects(start, size, trk) ==
    \E t \in trk : t[1] <= start + size - 1 /\ start <= t[2]

\* add_memory_driver_managed(nid, start, size, ...): 0 or an error
add_memory_driver_managed(start, size, trk, ref) ==
    IF region_intersects(start, size, trk) THEN "EEXIST"
    ELSE IF start \in ref THEN "ENOMEM"
    ELSE "0"

Registered(start, size, rc, trk) ==
    IF rc = "0" THEN trk \cup {<<start, start + size - 1>>} ELSE trk

\* ------------------------------------------------------------- range map
\* ram_map_add storing the first address past the range as its end.
ram_map_add_past(rs, base, size) ==
    Append(rs, [start |-> base, end |-> U64(base + size)])

ram_map_add(rs, base, size) ==
    Append(rs, [start |-> base, end |-> U64(base + size - 1)])

cmp_range(r1, r2) ==
    IF r1.start < r2.start THEN -1 ELSE IF r1.start > r2.start THEN 1 ELSE 0

\* sort(ranges, ranges_len, ..., cmp_range, NULL): a heapsort, so ranges that
\* compare equal may end in either order.
sort(rs) ==
    LET n == Len(rs)
        perms == {f \in [1..n -> 1..n] : \A a, b \in 1..n : a # b => f[a] # f[b]}
    IN {[k \in 1..n |-> rs[f[k]]] : f \in
            {g \in perms : \A k \in 1..(n - 1) :
                               cmp_range(rs[g[k]], rs[g[k + 1]]) <= 0}}

\* The (address, size) pairs a provider hands to ram_map_add.
EfiEntries(descs) ==
    LET conv == SelectSeq(descs, LAMBDA md : md.type = "EFI_CONVENTIONAL_MEMORY")
    IN [k \in 1..Len(conv) |->
            [addr |-> conv[k].phys_addr,
             size |-> U64(conv[k].num_pages * Pow2(EFI_PAGE_SHIFT))]]

FdtEntries(regs) == regs

\* The loop of ram_map_from_efi / ram_map_from_fdt: krealloc succeeds `budget`
\* times; on a failure ram_map_free() leaves no range.
\* A builder that returns what it has so far, as a success, when krealloc fails.
RECURSIVE ram_map_fill_partial(_, _, _, _)
ram_map_fill_partial(entries, k, rs, budget) ==
    IF k > Len(entries) THEN [rc |-> "0", ranges |-> rs]
    ELSE IF budget = 0 THEN [rc |-> "0", ranges |-> rs]
    ELSE ram_map_fill_partial(entries, k + 1,
                              ram_map_add(rs, entries[k].addr, entries[k].size),
                              budget - 1)

RECURSIVE ram_map_fill(_, _, _, _)
ram_map_fill(entries, k, rs, budget) ==
    IF k > Len(entries) THEN [rc |-> "0", ranges |-> rs]
    ELSE IF budget = 0 THEN [rc |-> "ENOMEM", ranges |-> <<>>]
    ELSE ram_map_fill(entries, k + 1,
                      ram_map_add(rs, entries[k].addr, entries[k].size),
                      budget - 1)

ram_map_from_efi(descs, budget) == ram_map_fill(EfiEntries(descs), 1, <<>>, budget)

ram_map_from_fdt(regs, budget) == ram_map_fill(FdtEntries(regs), 1, <<>>, budget)

\* --------------------------------------------------------- provider input
Seqs(S, n) == UNION {[1..k -> S] : k \in 0..n}

FwSpans ==
    { [addr |-> 0,                         size |-> block_sz],
      [addr |-> 4 * block_sz,              size |-> 4 * block_sz],
      [addr |-> 4 * block_sz - block_sz \div 2, size |-> 5 * block_sz + block_sz \div 2],
      [addr |-> AddrSpace - 2 * block_sz,  size |-> 2 * block_sz] }

FdtInputs == Seqs(FwSpans, MaxFw)

EfiDescs ==
    { [type |-> "EFI_CONVENTIONAL_MEMORY", phys_addr |-> s.addr,
       num_pages |-> s.size \div Pow2(EFI_PAGE_SHIFT)] :
          s \in {t \in FwSpans : t.size % Pow2(EFI_PAGE_SHIFT) = 0} }
    \cup { [type |-> "EFI_RESERVED_TYPE", phys_addr |-> 4 * block_sz,
            num_pages |-> 4] }

EfiInputs == Seqs(EfiDescs, MaxFw)

TrackerInputs ==
    { {<<0, block_sz - 1>>},
      {<<0, block_sz - 1>>, <<5 * block_sz + 1, 5 * block_sz + 2>>},
      {<<0, AddrSpace - 1>>} }

RefusedInputs == { {}, {5 * block_sz} }

Idle == [pc |-> "idle", size |-> 0, total |-> 0, b |-> NULL]

\* What a handler was given, what it returned, the registration calls it made,
\* what try_module_get answered it, and the text it emitted.
Result(op, arg, rc, calls, get, out) ==
    [op |-> op, arg |-> arg, rc |-> rc, calls |-> calls,
     try_module_get |-> get, out |-> out]

\* The state before memscav_init, the firmware reporting one of `efi` (an EFI
\* memory map) or one of `fdt` (the reg pairs of the /memory nodes).
InitFrom(efi, fdt) ==
    /\ pc = "start"
    /\ efi_enabled \in BOOLEAN
    /\ fw \in (IF efi_enabled THEN efi ELSE fdt)
    /\ tracked \in TrackerInputs
    /\ refused \in RefusedInputs
    /\ memscav_kobj = FALSE
    /\ sysfs_group = FALSE
    /\ ranges = <<>>
    /\ hidden_blocks = <<>>
    /\ hidden_blocks_cnt = 0
    /\ unloadable = TRUE
    /\ scan_i = 0
    /\ scan_start = 0
    /\ free_reported = {}
    /\ attempts = [k \in 1..(MaxAlloc + 1) |-> 0]
    /\ sc = [p \in Procs |-> Idle]
    /\ last = Result("none", <<>>, "0", <<>>, "none", <<>>)

Init == InitFrom(EfiInputs, FdtInputs)

\* ------------------------------------------------------------ memscav_init
\* memscav_init up to the call of find_hidden_blocks.
MemscavInit ==
    /\ pc = "start"
    /\ \E kobj_ok \in BOOLEAN, budget \in 0..(MaxFw + 1) :
          IF ~kobj_ok
          THEN /\ pc' = "failed"
               /\ last' = Result("init", <<>>, "ENOMEM", <<>>, "none", <<>>)
               /\ UNCHANGED <<memscav_kobj, ranges, scan_i, scan_start>>
          ELSE LET m == IF efi_enabled THEN ram_map_from_efi(fw, budget)
                        ELSE ram_map_from_fdt(fw, budget)
               IN IF m.rc # "0"
                  THEN /\ pc' = "failed"
                       /\ memscav_kobj' = FALSE
                       /\ ranges' = <<>>
                       /\ last' = Result("init", <<>>, m.rc, <<>>, "none",
                                         IF efi_enabled
                                         THEN <<"Failed to read efi.memmap entries">>
                                         ELSE <<"Failed to parse device-tree /memory entries">>)
                       /\ UNCHANGED <<scan_i, scan_start>>
                  ELSE /\ pc' = "scan"
                       /\ memscav_kobj' = TRUE
                       /\ ranges' \in sort(m.ranges)
                       /\ scan_i' = 1
                       /\ scan_start' = IF Len(m.ranges) = 0 THEN 0
                                        ELSE ALIGN(ranges'[1].start, block_sz)
                       /\ last' = Result("init", <<>>, "0", <<>>, "none", <<>>)
    /\ UNCHANGED <<efi_enabled, fw, tracked, refused, sysfs_group, hidden_blocks,
                   hidden_blocks_cnt, unloadable, free_reported, attempts, sc>>

\* The condition of the inner loop of find_hidden_blocks.
ScanCond(start, r) == U64(start + block_sz) < r.end

\* A purge that frees the first block only.
hidden_blocks_purge_first(hb, cnt) ==
    IF hb = <<>> THEN [hb |-> hb, cnt |-> cnt]
    ELSE [hb |-> Tail(hb), cnt |-> cnt - 1]

\* hidden_blocks_purge: hidden_block_free() on the first entry until none is left.
RECURSIVE hidden_blocks_purge(_, _)
hidden_blocks_purge(hb, cnt) ==
    IF hb = <<>> THEN [hb |-> hb, cnt |-> cnt]
    ELSE hidden_blocks_purge(Tail(hb), cnt - 1)

hidden_block_add(hb, phys) == Append(hb, [id |-> Len(hb) + 1, phys |-> phys])

\* One pass of the inner loop: the block at scan_start is skipped or added;
\* kmalloc may fail, and does once MaxAlloc blocks are held.
ScanBlock ==
    /\ pc = "scan"
    /\ scan_i <= ranges_len
    /\ ScanCond(scan_start, ranges[scan_i])
    /\ IF region_intersects(scan_start, block_sz, tracked)
       THEN /\ scan_start' = U64(scan_start + block_sz)
            /\ UNCHANGED <<pc, memscav_kobj, ranges, hidden_blocks,
                           hidden_blocks_cnt, free_reported, last>>
       ELSE \E kmalloc_ok \in BOOLEAN :
              IF kmalloc_ok /\ hidden_blocks_cnt < MaxAlloc
              THEN /\ hidden_blocks' = hidden_block_add(hidden_blocks, scan_start)
                   /\ hidden_blocks_cnt' = hidden_blocks_cnt + 1
                   /\ free_reported' = free_reported \cup {scan_start}
                   /\ scan_start' = U64(scan_start + block_sz)
                   /\ UNCHANGED <<pc, memscav_kobj, ranges, last>>
              ELSE \* out: hidden_blocks_purge(); then ram_map_free(), kobject_put()
                   /\ hidden_blocks' =
                         hidden_blocks_purge(hidden_blocks, hidden_blocks_cnt).hb
                   /\ hidden_blocks_cnt' =
                         hidden_blocks_purge(hidden_blocks, hidden_blocks_cnt).cnt
                   /\ free_reported' = free_reported \cup {scan_start}
                   /\ ranges' = <<>>
                   /\ memscav_kobj' = FALSE
                   /\ pc' = "failed"
                   /\ last' = Result("init", <<>>, "ENOMEM", <<>>, "none",
                                     <<"Failed to search for hidden memory blocks">>)
                   /\ UNCHANGED scan_start
    /\ UNCHANGED <<efi_enabled, fw, tracked, refused, sysfs_group, unloadable,
                   scan_i, attempts, sc>>

\* The inner loop ends for ranges[scan_i]: on to the next range.
ScanNextRange ==
    /\ pc = "scan"
    /\ scan_i <= ranges_len
    /\ ~ScanCond(scan_start, ranges[scan_i])
    /\ scan_i' = scan_i + 1
    /\ scan_start' = IF scan_i + 1 <= ranges_len
                     THEN ALIGN(ranges[scan_i + 1].start, block_sz)
                     ELSE scan_start
    /\ UNCHANGED <<pc, efi_enabled, fw, tracked, refused, memscav_kobj,
                   sysfs_group, ranges, hidden_blocks, hidden_blocks_cnt,
                   unloadable, free_reported, attempts, sc, last>>

\* find_hidden_blocks returns 0; memscav_init creates the sysfs group.
ScanFinish ==
    /\ pc = "scan"
    /\ scan_i > ranges_len
    /\ \E sysfs_ok \in BOOLEAN :
          IF sysfs_ok
          THEN /\ pc' = "live"
               /\ sysfs_group' = TRUE
               /\ last' = Result("init", <<>>, "0", <<>>, "none", <<>>)
               /\ UNCHANGED <<ranges, memscav_kobj>>
          ELSE /\ pc' = "failed"
               /\ ranges' = <<>>
               /\ memscav_kobj' = FALSE
               /\ last' = Result("init", <<>>, "ENOMEM", <<>>, "none",
                                 <<"Failed to create sysfs attributes">>)
               /\ UNCHANGED sysfs_group
    /\ UNCHANGED <<efi_enabled, fw, tracked, refused, hidden_blocks,
                   hidden_blocks_cnt, unloadable, scan_i, scan_start,
                   free_reported, attempts, sc>>

\* ------------------------------------------------------------- kstrtoull
Digits == <<"0", "1", "2", "3", "4", "5", "6", "7", "8", "9">>

DigitVal(c) == (CHOOSE d \in 1..10 : Digits[d] = c) - 1

RECURSIVE Decimal(_, _)
Decimal(buf, acc) ==
    IF buf = <<>> THEN acc ELSE Decimal(Tail(buf), 10 * acc + DigitVal(Head(buf)))

\* kstrtoull(buf, 0, &res) on a decimal buffer: -EINVAL on anything that is
\* no number, -ERANGE on a number that does not fit.
kstrtoull(buf) ==
    IF buf = <<>> \/ \E k \in 1..Len(buf) : \A d \in 1..10 : Digits[d] # buf[k]
    THEN [rc |-> "EINVAL", val |-> 0]
    ELSE IF Decimal(buf, 0) >= AddrSpace THEN [rc |-> "ERANGE", val |-> 0]
    ELSE [rc |-> "0", val |-> Decimal(buf, 0)]

ScavengeBufs == { <<"0">>, <<"4">>, <<"6">>, <<"8">>, <<"1", "x">> }

ProbeBufs == { <<"6">>, <<"2", "4">>, <<"9", "9", "9">> }

\* ---------------------------------------------------------- disable_unload
\* got: what try_module_get(THIS_MODULE) returns.
\* disable_unload without its early return, storing what try_module_get said.
disable_unload_store(u, got) ==
    IF got THEN [unloadable |-> FALSE, try_module_get |-> "ok"]
    ELSE [unloadable |-> TRUE, try_module_get |-> "failed"]

\* disable_unload that takes the reference and forgets the flag.
disable_unload_forget(u, got) ==
    IF ~u THEN [unloadable |-> u, try_module_get |-> "none"]
    ELSE IF ~got THEN [unloadable |-> u, try_module_get |-> "failed"]
    ELSE [unloadable |-> u, try_module_get |-> "ok"]

disable_unload(u, got) ==
    IF ~u THEN [unloadable |-> u, try_module_get |-> "none"]
    ELSE IF ~got THEN [unloadable |-> u, try_module_get |-> "failed"]
    ELSE [unloadable |-> FALSE, try_module_get |-> "ok"]

\* A check that holds whether or not a block was taken.
Consumed_always(total, size) == TRUE

\* scavenge_store: "if (total > size)", at least one pass of the loop ran.
Consumed(total, size) == total > size

NotCalled(u) == [unloadable |-> u, try_module_get |-> "none"]

\* ---------------------------------------------------------- scavenge_store
\* A size check that only refuses zero.
ScavengeSizeBad_zero(size) == size = 0

\* The size check of scavenge_store: "Only add entire memory blocks."
ScavengeSizeBad(size) == size = 0 \/ size % block_sz # 0

ScavCall(b, rc) == [id |-> b.id, phys |-> b.phys, size |-> block_sz, rc |-> rc]

\* The loop taking list_last_entry instead of the first.
RECURSIVE ScavengeLoop_last(_, _, _, _, _)
ScavengeLoop_last(size, hb, trk, ref, calls) ==
    IF size < block_sz \/ hb = <<>>
    THEN [size |-> size, hb |-> hb, tracked |-> trk, calls |-> calls]
    ELSE LET b == hb[Len(hb)]
             rc == add_memory_driver_managed(b.phys, block_sz, trk, ref)
         IN ScavengeLoop_last(size - block_sz, SubSeq(hb, 1, Len(hb) - 1),
                              Registered(b.phys, block_sz, rc, trk), ref,
                              Append(calls, ScavCall(b, rc)))

\* The loop leaving a block whose registration failed on the list.
RECURSIVE ScavengeLoop_keep(_, _, _, _, _)
ScavengeLoop_keep(size, hb, trk, ref, calls) ==
    IF size < block_sz \/ hb = <<>>
    THEN [size |-> size, hb |-> hb, tracked |-> trk, calls |-> calls]
    ELSE LET b == Head(hb)
             rc == add_memory_driver_managed(b.phys, block_sz, trk, ref)
         IN ScavengeLoop_keep(size - block_sz,
                              IF rc = "0" THEN Tail(hb) ELSE hb,
                              Registered(b.phys, block_sz, rc, trk), ref,
                              Append(calls, ScavCall(b, rc)))

\* The loop moving a block whose registration failed to the tail.
RECURSIVE ScavengeLoop_requeue(_, _, _, _, _)
ScavengeLoop_requeue(size, hb, trk, ref, calls) ==
    IF size < block_sz \/ hb = <<>>
    THEN [size |-> size, hb |-> hb, tracked |-> trk, calls |-> calls]
    ELSE LET b == Head(hb)
             rc == add_memory_driver_managed(b.phys, block_sz, trk, ref)
         IN ScavengeLoop_requeue(size - block_sz,
                                 IF rc = "0" THEN Tail(hb)
                                 ELSE Append(Tail(hb), b),
                                 Registered(b.phys, block_sz, rc, trk), ref,
                                 Append(calls, ScavCall(b, rc)))

\* The loop of scavenge_store, run to its end on the list hb.
RECURSIVE ScavengeLoop(_, _, _, _, _)
ScavengeLoop(size, hb, trk, ref, calls) ==
    IF size < block_sz \/ hb = <<>>
    THEN [size |-> size, hb |-> hb, tracked |-> trk, calls |-> calls]
    ELSE LET b == Head(hb)
             rc == add_memory_driver_managed(b.phys, block_sz, trk, ref)
         IN ScavengeLoop(size - block_sz, Tail(hb),
                         Registered(b.phys, block_sz, rc, trk), ref,
                         Append(calls, ScavCall(b, rc)))

Counted(att, calls) ==
    [k \in DOMAIN att |->
        att[k] + Cardinality({j \in 1..Len(calls) : calls[j].id = k})]

ScavengeStore ==
    /\ pc = "live"
    /\ \E buf \in ScavengeBufs, got \in BOOLEAN :
          LET parsed == kstrtoull(buf)
              size == parsed.val
              r == ScavengeLoop(size, hidden_blocks, tracked, refused, <<>>)
              du == IF Consumed(size, r.size) THEN disable_unload(unloadable, got)
                    ELSE NotCalled(unloadable)
          IN IF parsed.rc # "0"
             THEN /\ last' = Result("scavenge", buf, parsed.rc, <<>>, "none", <<>>)
                  /\ UNCHANGED <<hidden_blocks, tracked, attempts, unloadable>>
             ELSE IF ScavengeSizeBad(size)
             THEN /\ last' = Result("scavenge", buf, "EINVAL", <<>>, "none", <<>>)
                  /\ UNCHANGED <<hidden_blocks, tracked, attempts, unloadable>>
             ELSE /\ hidden_blocks' = r.hb
                  /\ tracked' = r.tracked
                  /\ attempts' = Counted(attempts, r.calls)
                  /\ unloadable' = du.unloadable
                  /\ last' = Result("scavenge", buf, "count", r.calls,
                                    du.try_module_get, <<>>)
    /\ UNCHANGED <<pc, efi_enabled, fw, refused, memscav_kobj, sysfs_group,
                   ranges, hidden_blocks_cnt, scan_i, scan_start,
                   free_reported, sc>>

\* ------------------------------------------------------------- probe_store
ProbeStore ==
    /\ pc = "live"
    /\ \E buf \in ProbeBufs, got \in BOOLEAN :
          LET parsed == kstrtoull(buf)
              phys_addr == parsed.val
              rc == add_memory_driver_managed(phys_addr, block_sz, tracked, refused)
              call == [id |-> 0, phys |-> phys_addr, size |-> block_sz, rc |-> rc]
              du == disable_unload(unloadable, got)
          IN IF parsed.rc # "0"
             THEN /\ last' = Result("probe", buf, parsed.rc, <<>>, "none", <<>>)
                  /\ UNCHANGED <<tracked, unloadable>>
             ELSE IF ~IS_ALIGNED(phys_addr, block_sz)
             THEN /\ last' = Result("probe", buf, "EINVAL", <<>>, "none", <<>>)
                  /\ UNCHANGED <<tracked, unloadable>>
             ELSE IF rc # "0"
             THEN /\ last' = Result("probe", buf, rc, <<call>>, "none", <<>>)
                  /\ UNCHANGED <<tracked, unloadable>>
             ELSE /\ tracked' = Registered(phys_addr, block_sz, rc, tracked)
                  /\ unloadable' = du.unloadable
                  /\ last' = Result("probe", buf, "count", <<call>>,
                                    du.try_module_get, <<>>)
    /\ UNCHANGED <<pc, efi_enabled, fw, refused, memscav_kobj, sysfs_group,
                   ranges, hidden_blocks, hidden_blocks_cnt, scan_i, scan_start,
                   free_reported, attempts, sc>>

\* ---------------------------------------------------------------- listings
\* A line "%#llx-%#llx (%#llx)\n" is kept as <<first, last, length>>.  A page
\* holds more lines than MaxFw ranges or MaxAlloc blocks can give.
ranges_show(rs) == [k \in 1..Len(rs) |-> <<rs[k].start, rs[k].end, range_len(rs[k])>>]

\* The loop without the emit that follows it: the last run is lost.
RECURSIVE show_loop_short(_, _, _, _)
show_loop_short(hb, start, size, out) ==
    IF hb = <<>> THEN out
    ELSE LET b == Head(hb)
         IN IF size = 0 THEN show_loop_short(Tail(hb), b.phys, block_sz, out)
            ELSE IF U64(start + size) = b.phys
            THEN show_loop_short(Tail(hb), start, U64(size + block_sz), out)
            ELSE show_loop_short(Tail(hb), b.phys, block_sz,
                                 Append(out, <<start, U64(start + size - 1), size>>))

\* The loop of hidden_blocks_show; size = 0 stands for "first iteration".
RECURSIVE show_loop(_, _, _, _)
show_loop(hb, start, size, out) ==
    IF hb = <<>>
    THEN IF size # 0 THEN Append(out, <<start, U64(start + size - 1), size>>)
         ELSE out
    ELSE LET b == Head(hb)
         IN IF size = 0 THEN show_loop(Tail(hb), b.phys, block_sz, out)
            ELSE IF U64(start + size) = b.phys
            THEN show_loop(Tail(hb), start, U64(size + block_sz), out)
            ELSE show_loop(Tail(hb), b.phys, block_sz,
                           Append(out, <<start, U64(start + size - 1), size>>))

hidden_blocks_show(hb) == show_loop(hb, 0, 0, <<>>)

RangesShow ==
    /\ pc = "live"
    /\ last' = Result("ranges", <<>>, "count", <<>>, "none", ranges_show(ranges))
    /\ UNCHANGED <<pc, efi_enabled, fw, tracked, refused, memscav_kobj,
                   sysfs_group, ranges, hidden_blocks, hidden_blocks_cnt,
                   unloadable, scan_i, scan_start, free_reported, attempts, sc>>

HiddenBlocksShow ==
    /\ pc = "live"
    /\ last' = Result("hidden_blocks", <<>>, "count", <<>>, "none",
                      hidden_blocks_show(hidden_blocks))
    /\ UNCHANGED <<pc, efi_enabled, fw, tracked, refused, memscav_kobj,
                   sysfs_group, ranges, hidden_blocks, hidden_blocks_cnt,
                   unloadable, scan_i, scan_start, free_reported, attempts, sc>>

\* ------------------------------------------------------------ memscav_exit
\* The module can be removed while it holds no reference on itself.
MemscavExit ==
    /\ pc = "live"
    /\ unloadable
    /\ \A p \in Procs : sc[p].pc = "idle"
    /\ pc' = "exited"
    /\ sysfs_group' = FALSE
    /\ ranges' = <<>>
    /\ memscav_kobj' = FALSE
    /\ last' = Result("exit", <<>>, "0", <<>>, "none", <<>>)
    /\ UNCHANGED <<efi_enabled, fw, tracked, refused, hidden_blocks,
                   hidden_blocks_cnt, unloadable, scan_i, scan_start,
                   free_reported, attempts, sc>>

\* --------------------------------------------- scavenge_store, step by step
\* sysfs serialises nothing between open files: writers of "scavenge" and a
\* reader of "hidden_blocks" run side by side, and the driver takes no lock.
\* Writer p is at one of: idle, loop (the for condition), reg (b was read
\* from the list head), del (add_memory_driver_managed has returned), end,
\* oops.

\* rc = kstrtoull(...); the size check; total = size.
ScavBegin(p) ==
    /\ pc = "live"
    /\ sc[p].pc = "idle"
    /\ \E buf \in ScavengeBufs :
          LET parsed == kstrtoull(buf)
          IN IF parsed.rc # "0"
             THEN /\ last' = Result("scavenge", buf, parsed.rc, <<>>, "none", <<>>)
                  /\ UNCHANGED sc
             ELSE IF ScavengeSizeBad(parsed.val)
             THEN /\ last' = Result("scavenge", buf, "EINVAL", <<>>, "none", <<>>)
                  /\ UNCHANGED sc
             ELSE /\ sc' = [sc EXCEPT ![p] = [pc |-> "loop", size |-> parsed.val,
                                              total |-> parsed.val, b |-> NULL]]
                  /\ UNCHANGED last
    /\ UNCHANGED <<pc, efi_enabled, fw, tracked, refused, memscav_kobj,
                   sysfs_group, ranges, hidden_blocks, hidden_blocks_cnt,
                   unloadable, scan_i, scan_start, free_reported, attempts>>

\* size >= block_sz; b = list_first_entry_or_null(&hidden_blocks, ...).
ScavPeek(p) ==
    /\ sc[p].pc = "loop"
    /\ sc' = [sc EXCEPT ![p] =
                IF sc[p].size >= block_sz /\ hidden_blocks # <<>>
                THEN [@ EXCEPT !.pc = "reg", !.b = Head(hidden_blocks)]
                ELSE [@ EXCEPT !.pc = "end"]]
    /\ UNCHANGED <<pc, efi_enabled, fw, tracked, refused, memscav_kobj,
                   sysfs_group, ranges, hidden_blocks, hidden_blocks_cnt,
                   unloadable, scan_i, scan_start, free_reported, attempts, last>>

\* rc = add_memory_driver_managed(nid, b->phys, block_sz, ...).
ScavRegister(p) ==
    /\ sc[p].pc = "reg"
    /\ LET b == sc[p].b
           rc == add_memory_driver_managed(b.phys, block_sz, tracked, refused)
       IN /\ tracked' = Registered(b.phys, block_sz, rc, tracked)
          /\ attempts' = [attempts EXCEPT ![b.id] = @ + 1]
    /\ sc' = [sc EXCEPT ![p].pc = "del"]
    /\ UNCHANGED <<pc, efi_enabled, fw, refused, memscav_kobj, sysfs_group,
                   ranges, hidden_blocks, hidden_blocks_cnt, unloadable,
                   scan_i, scan_start, free_reported, last>>

\* list_del(&b->l); size -= block_sz.  list_del of an entry another writer
\* has already unlinked works on poisoned links: the writer dies in an oops,
\* or (CONFIG_DEBUG_LIST) the corruption is reported and the unlink skipped.
ScavDel(p) ==
    /\ sc[p].pc = "del"
    /\ IF sc[p].b.id \in Ids(hidden_blocks)
       THEN /\ hidden_blocks' = SelectSeq(hidden_blocks,
                                          LAMBDA e : e.id # sc[p].b.id)
            /\ sc' = [sc EXCEPT ![p].pc = "loop",
                                ![p].size = sc[p].size - block_sz]
       ELSE /\ UNCHANGED hidden_blocks
            /\ \E oops \in BOOLEAN :
                  sc' = [sc EXCEPT ![p] =
                           IF oops THEN [@ EXCEPT !.pc = "oops"]
                           ELSE [@ EXCEPT !.pc = "loop",
                                          !.size = sc[p].size - block_sz]]
    /\ UNCHANGED <<pc, efi_enabled, fw, tracked, refused, memscav_kobj,
                   sysfs_group, ranges, hidden_blocks_cnt, unloadable, scan_i,
                   scan_start, free_reported, attempts, last>>

\* if (total > size) disable_unload(); return count.
ScavEnd(p) ==
    /\ sc[p].pc = "end"
    /\ \E got \in BOOLEAN :
          LET du == IF Consumed(sc[p].total, sc[p].size)
                    THEN disable_unload(unloadable, got)
                    ELSE NotCalled(unloadable)
          IN /\ unloadable' = du.unloadable
             /\ last' = Result("scavenge", <<>>, "count", <<>>,
                               du.try_module_get, <<>>)
    /\ sc' = [sc EXCEPT ![p] = Idle]
    /\ UNCHANGED <<pc, efi_enabled, fw, tracked, refused, memscav_kobj,
                   sysfs_group, ranges, hidden_blocks, hidden_blocks_cnt,
                   scan_i, scan_start, free_reported, attempts>>

Next ==
    \/ MemscavInit
    \/ ScanBlock
    \/ ScanNextRange
    \/ ScanFinish
    \/ ScavengeStore
    \/ ProbeStore
    \/ RangesShow
    \/ HiddenBlocksShow
    \/ MemscavExit

Spec == Init /\ [][Next]_vars

\* memscav_init alone, the firmware also reporting spans at the very top of the
\* address space and the empty placeholder reg = <0 0> of a device tree.
TopSpans ==
    { [addr |-> AddrSpace - block_sz \div 2, size |-> block_sz \div 2],
      [addr |-> 0, size |-> 0] }

InitScan ==
    /\ InitFrom(EfiInputs, Seqs(FwSpans \cup TopSpans, MaxFw))
    /\ ~efi_enabled

NextScan ==
    \/ MemscavInit
    \/ ScanBlock
    \/ ScanNextRange
    \/ ScanFinish

SpecScan == InitScan /\ [][NextScan]_vars

\* The worked scenario: ranges [(0x0, 0xFFF), (0x4000, 0x7FFF)] from the
\* device tree, only [0x0, 0xFFF] tracked.
ScenarioFw == << [addr |-> 0, size |-> block_sz],
                 [addr |-> 4 * block_sz, size |-> 4 * block_sz] >>

ScenarioTracked == {<<0, block_sz - 1>>}

InitConc ==
    /\ Init
    /\ ~efi_enabled
    /\ fw = ScenarioFw
    /\ tracked = ScenarioTracked

NextConc ==
    \/ MemscavInit
    \/ ScanBlock
    \/ ScanNextRange
    \/ ScanFinish
    \/ \E p \in Procs : ScavBegin(p)
    \/ \E p \in Procs : ScavPeek(p)
    \/ \E p \in Procs : ScavRegister(p)
    \/ \E p \in Procs : ScavDel(p)
    \/ \E p \in Procs : ScavEnd(p)
    \/ HiddenBlocksShow

SpecConc == InitConc /\ [][NextConc]_vars

\* ================================================================ claims
\* The scan has run to its end: find_hidden_blocks is about to return 0.
ScanDone == pc = "scan" /\ scan_i > ranges_len

RoundUp(x, a) == ((x + a - 1) \div a) * a

\* The blocks the scan of one range is said to give: every
\* a = round_up(start, B) + k*B with a + B <= end + 1 that the tracker
\* reports free, in ascending order.
RECURSIVE SaidBlocks(_, _, _)
SaidBlocks(a, r, trk) ==
    IF a + block_sz <= r.end + 1
    THEN (IF \E t \in trk : t[1] <= a + block_sz - 1 /\ a <= t[2]
          THEN <<>> ELSE <<a>>) \o SaidBlocks(a + block_sz, r, trk)
    ELSE <<>>

RECURSIVE SaidScan(_, _, _)
SaidScan(rs, k, trk) ==
    IF k > Len(rs) THEN <<>>
    ELSE SaidBlocks(RoundUp(rs[k].start, block_sz), rs[k], trk)
             \o SaidScan(rs, k + 1, trk)

\* C1: after a scan the Hidden Block list is exactly, range by range in
\* ascending start order, every block-aligned address a with
\* a + B <= range.end + 1 whose block the tracker reports free; a block whose
\* last byte is range.end is included.
C1_ScanKeepsEveryFittingFreeBlock ==
    ScanDone => Phys(hidden_blocks) = SaidScan(ranges, 1, tracked)

\* The size a write to "scavenge" asked for, when it is a valid one.
AskedBlocks(r) == kstrtoull(r.arg).val \div block_sz

ValidScavenge(r) ==
    /\ r.op = "scavenge"
    /\ kstrtoull(r.arg).rc = "0"
    /\ kstrtoull(r.arg).val # 0
    /\ kstrtoull(r.arg).val % block_sz = 0

\* C2: a scavenge of N * block_sz (N >= 1) pops exactly min(N, available)
\* blocks from the front of the list in discovery order, makes one
\* registration call per popped block with (address, block_sz), leaves the
\* rest of the list as it was, and returns success.
C2_ScavengePopsPrefix ==
    [][ValidScavenge(last') =>
          LET n == Min(AskedBlocks(last'), Len(hidden_blocks))
          IN /\ last'.rc = "count"
             /\ hidden_blocks' = Drop(hidden_blocks, n)
             /\ Len(last'.calls) = n
             /\ \A k \in 1..n :
                   /\ last'.calls[k].id = hidden_blocks[k].id
                   /\ last'.calls[k].phys = hidden_blocks[k].phys
                   /\ last'.calls[k].size = block_sz]_vars

\* Four blocks 0x4000..0x7000 and size 0x2000 have left 0x6000, 0x7000.
C2_Witness ==
    /\ last.op = "scavenge"
    /\ last.arg = <<"8">>
    /\ Len(last.calls) = 2
    /\ last.calls[1].phys = 4 * block_sz
    /\ last.calls[2].phys = 5 * block_sz
    /\ Phys(hidden_blocks) = <<6 * block_sz, 7 * block_sz>>

\* C3: a scavenge whose size is zero or no multiple of block_sz fails with
\* -EINVAL and changes nothing: list, count, registrations and unloadable
\* stay as they were.
C3_InvalidSizeChangesNothing ==
    [][(/\ last'.op = "scavenge"
        /\ kstrtoull(last'.arg).rc = "0"
        /\ \/ kstrtoull(last'.arg).val = 0
           \/ kstrtoull(last'.arg).val % block_sz # 0)
       => /\ last'.rc = "EINVAL"
          /\ last'.calls = <<>>
          /\ UNCHANGED <<hidden_blocks, hidden_blocks_cnt, unloadable,
                         attempts, tracked, ranges>>]_vars

C3_Witness ==
    /\ last.op = "scavenge"
    /\ last.arg = <<"6">>
    /\ last.rc = "EINVAL"
    /\ Len(hidden_blocks) = 4
    /\ unloadable

\* C4, as stated: after a scavenge call that popped at least one block,
\* unloadable is false when the call returns.
C4_PoppedImpliesLocked ==
    (last.op = "scavenge" /\ last.calls # <<>>) => ~unloadable

\* C4, amended: after a scavenge call that popped at least one block,
\* unloadable is false when the call returns unless it was true and
\* try_module_get refused the reference; then it is still true.
C4_PoppedImpliesLockedUnlessNoRef ==
    (last.op = "scavenge" /\ last.calls # <<>>)
        => (unloadable <=> last.try_module_get = "failed")

\* A call that popped two blocks, the registration of one of which failed,
\* has locked the module.
C4_Witness ==
    /\ last.op = "scavenge"
    /\ Len(last.calls) = 2
    /\ \E k \in 1..2 : last.calls[k].rc # "0"
    /\ last.try_module_get = "ok"
    /\ ~unloadable

\* C5: unloadable starts true and, once false, is false in every later
\* state, whatever scavenge, probe and listing operations follow.
C5_OneWayFlag ==
    [][/\ pc = "start" => unloadable
       /\ ~unloadable => ~unloadable']_vars

\* A scavenge that popped a block while the module was already locked.
C5_Witness ==
    /\ ~unloadable
    /\ last.op = "scavenge"
    /\ last.calls # <<>>
    /\ last.try_module_get = "none"

\* C6: a block whose registration fails is removed all the same, the loop
\* goes on with the next block and the call returns success; a block handed
\* to the registration call once is never on the list again and never
\* handed to it again.
C6_FailedBlockDropped ==
    [][/\ (ValidScavenge(last') /\ \E k \in 1..Len(last'.calls) :
                                      last'.calls[k].rc # "0")
            => /\ last'.rc = "count"
               /\ Len(last'.calls) = Min(AskedBlocks(last'), Len(hidden_blocks))
               /\ \A k \in 1..Len(last'.calls) :
                      /\ last'.calls[k].id \notin Ids(hidden_blocks')
                      /\ attempts'[last'.calls[k].id] = 1
       /\ \A id \in DOMAIN attempts :
             attempts[id] > 0 => /\ attempts'[id] = attempts[id]
                                 /\ id \notin Ids(hidden_blocks')]_vars

\* A call whose first registration failed and which went on to a second.
C6_Witness ==
    /\ last.op = "scavenge"
    /\ last.rc = "count"
    /\ Len(last.calls) = 2
    /\ last.calls[1].rc # "0"
    /\ last.calls[1].id \notin Ids(hidden_blocks)

\* A line of a listing covers the address a.
Covers(out, a) == \E k \in 1..Len(out) : out[k][1] <= a /\ a <= out[k][2]

\* C7: a listing of hidden_blocks that runs while a scavenge is under way
\* never shows a block whose registration call has been issued and which
\* is not yet off the list.
C7_ListingNeverShowsBlockInConsumption ==
    [][HiddenBlocksShow =>
          \A p \in Procs :
             sc[p].pc = "del" => ~Covers(last'.out, sc[p].b.phys)]_vars

IsSuffix(s, t) ==
    /\ Len(s) <= Len(t)
    /\ s = SubSeq(t, Len(t) - Len(s) + 1, Len(t))

\* C8: after the scan the list only ever loses blocks from its front: in
\* every step it becomes a suffix of what it was.
C8_ListOnlyShrinks ==
    [][pc = "live" => IsSuffix(hidden_blocks', hidden_blocks)]_vars

\* A probe has succeeded after a scavenge popped blocks, and blocks remain.
C8_Witness ==
    /\ pc = "live"
    /\ last.op = "probe"
    /\ last.rc = "count"
    /\ attempts[1] > 0
    /\ hidden_blocks # <<>>

\* C9: every block the scanner produced is aligned to block_sz, lies
\* inside one of the ranges, and was reported free by the tracker when the
\* scan asked.
C9_BlocksAlignedInsideFree ==
    /\ \A k \in 1..Len(hidden_blocks) :
          /\ hidden_blocks[k].phys % block_sz = 0
          /\ hidden_blocks[k].phys \in free_reported
    /\ pc = "scan" =>
          \A a \in free_reported :
             ~\E t \in tracked : t[1] <= a + block_sz - 1 /\ a <= t[2]
    /\ (ScanDone \/ pc = "live") =>
          \A k \in 1..Len(hidden_blocks) :
             \E j \in 1..Len(ranges) :
                /\ ranges[j].start <= hidden_blocks[k].phys
                /\ hidden_blocks[k].phys + block_sz - 1 <= ranges[j].end

\* The scan of a range with an unaligned start, one block of which the
\* tracker knows in part, has ended.
C9_Witness ==
    /\ ScanDone
    /\ \E j \in 1..Len(ranges) : ranges[j].start % block_sz # 0
    /\ \E t \in tracked : t[1] % block_sz # 0
    /\ Len(hidden_blocks) >= 3

\* C10: the addresses on the list are pairwise distinct and any two differ
\* by at least block_sz, whatever ranges the provider reported.
C10_NoTwoBlocksOverlap ==
    (ScanDone \/ pc = "live") =>
        \A j, k \in 1..Len(hidden_blocks) :
            j # k => \/ hidden_blocks[j].phys + block_sz <= hidden_blocks[k].phys
                     \/ hidden_blocks[k].phys + block_sz <= hidden_blocks[j].phys

\* What the provider reported, as the ranges it stands for: one per
\* conventional-memory descriptor, or one per reg pair.
Reported ==
    IF efi_enabled
    THEN LET conv == SelectSeq(fw, LAMBDA md : md.type = "EFI_CONVENTIONAL_MEMORY")
         IN [k \in 1..Len(conv) |->
               [start |-> conv[k].phys_addr,
                end |-> (conv[k].phys_addr
                         + conv[k].num_pages * Pow2(EFI_PAGE_SHIFT) - 1) % AddrSpace]]
    ELSE [k \in 1..Len(fw) |->
               [start |-> fw[k].addr,
                end |-> (fw[k].addr + fw[k].size - 1) % AddrSpace]]

Times(x, q) == Cardinality({k \in 1..Len(q) : q[k] = x})

\* C11: after a successful build the Range Map is sorted ascending by start
\* and holds exactly one range (address, address + size - 1) per entry the
\* provider reported; none is dropped, repeated or merged.
C11_MapIsSortedReport ==
    pc \in {"scan", "live"} =>
        /\ \A k \in 1..(Len(ranges) - 1) : ranges[k].start <= ranges[k + 1].start
        /\ Len(ranges) = Len(Reported)
        /\ \A k \in 1..Len(ranges) :
              Times(ranges[k], ranges) = Times(ranges[k], Reported)

\* An EFI map whose two conventional descriptors came in descending order.
C11_Witness ==
    /\ pc = "scan"
    /\ efi_enabled
    /\ Len(fw) = 2
    /\ fw[1].type = "EFI_CONVENTIONAL_MEMORY"
    /\ fw[2].type = "EFI_CONVENTIONAL_MEMORY"
    /\ fw[1].phys_addr > fw[2].phys_addr
    /\ Len(ranges) = 2
    /\ ranges[1].start < ranges[2].start

\* Block k of the list opens a run: it does not follow block k - 1 at once.
OpensRun(q, k) == k = 1 \/ q[k] # q[k - 1] + block_sz

RunEnd(q, k) ==
    CHOOSE e \in k..Len(q) :
        /\ \A j \in (k + 1)..e : ~OpensRun(q, j)
        /\ e = Len(q) \/ OpensRun(q, e + 1)

\* One line per maximal run, in list order.
SaidRuns(q) ==
    LET opens == SelectSeq([k \in 1..Len(q) |-> k], LAMBDA k : OpensRun(q, k))
    IN [n \in 1..Len(opens) |->
          <<q[opens[n]], q[RunEnd(q, opens[n])] + block_sz - 1,
            (RunEnd(q, opens[n]) - opens[n] + 1) * block_sz>>]

\* C12: a listing of hidden_blocks gives one line per maximal run of
\* address-contiguous blocks in list order, the runs together being the
\* blocks of the list, and changes neither the list nor unloadable; so two
\* listings with no scavenge in between read the same.
C12_ListingIsRunsAndReadOnly ==
    [][last'.op = "hidden_blocks" =>
          /\ last'.out = SaidRuns(Phys(hidden_blocks))
          /\ UNCHANGED <<hidden_blocks, hidden_blocks_cnt, unloadable, ranges,
                         tracked, attempts>>]_vars

\* Blocks 0x4000, 0x5000, 0x6000, 0x7000 read as 0x4000-0x7fff (0x4000).
C12_Witness ==
    /\ last.op = "hidden_blocks"
    /\ Phys(hidden_blocks) = <<4 * block_sz, 5 * block_sz, 6 * block_sz, 7 * block_sz>>
    /\ last.out = << <<4 * block_sz, 8 * block_sz - 1, 4 * block_sz>> >>

\* A write to "probe" that parsed as a number.
ParsedProbe(r) == r.op = "probe" /\ kstrtoull(r.arg).rc = "0"

\* What every probe does, whatever becomes of unloadable: an aligned address
\* gets one registration call for [address, address + block_sz) and the list
\* is left alone; an unaligned one is refused and nothing changes.
ProbeCallsAndFrame(r) ==
    LET a == kstrtoull(r.arg).val
    IN IF a % block_sz = 0
       THEN /\ Len(r.calls) = 1
            /\ r.calls[1].phys = a
            /\ r.calls[1].size = block_sz
            /\ UNCHANGED <<hidden_blocks, hidden_blocks_cnt, attempts>>
       ELSE /\ r.rc = "EINVAL"
            /\ r.calls = <<>>
            /\ UNCHANGED <<hidden_blocks, hidden_blocks_cnt, attempts,
                           unloadable, tracked, ranges>>

\* C13, as stated: ... and after a probe that attempted a registration
\* unloadable is false.
C13_ProbeAttemptLocks ==
    [][ParsedProbe(last') =>
          /\ ProbeCallsAndFrame(last')
          /\ last'.calls # <<>> => ~unloadable']_vars

\* C13, amended: ... and after a probe whose registration succeeded
\* unloadable is false, unless it was true and try_module_get refused the
\* reference; a probe whose registration failed returns the error and leaves
\* unloadable as it was.
C13_ProbeSuccessLocks ==
    [][ParsedProbe(last') =>
          /\ ProbeCallsAndFrame(last')
          /\ (last'.calls # <<>> /\ last'.calls[1].rc = "0") =>
                 /\ last'.rc = "count"
                 /\ unloadable' <=> last'.try_module_get = "failed"
          /\ (last'.calls # <<>> /\ last'.calls[1].rc # "0") =>
                 /\ last'.rc = last'.calls[1].rc
                 /\ unloadable' = unloadable]_vars

\* A probe of an address that is on the list has succeeded; the list still
\* holds the address.
C13_Witness ==
    /\ last.op = "probe"
    /\ last.rc = "count"
    /\ ~unloadable
    /\ \E k \in 1..Len(hidden_blocks) : hidden_blocks[k].phys = last.calls[1].phys

\* C14: with addresses modulo 2^64, the scan of a range that ends at the top
\* of the address space, or whose start rounds up past the top, terminates
\* and appends only blocks inside that range: every pass of the loop moves
\* the address upward, and a block it appends lies between the range's start
\* and its end.
C14_ScanNeverWraps ==
    [][(pc = "scan" /\ scan_i <= ranges_len /\ scan_start' # scan_start) =>
          /\ scan_start' > scan_start
          /\ ranges[scan_i].start <= scan_start
          /\ Len(hidden_blocks') > Len(hidden_blocks) =>
                scan_start + block_sz - 1 <= ranges[scan_i].end]_vars

\* The step is the failure of kmalloc in hidden_block_add.
ScanAllocFails == pc = "scan" /\ scan_i <= ranges_len /\ pc' = "failed"

\* C15: when an allocation fails while the scanner appends a block, the scan
\* stops, the error is returned, every block gathered so far is discarded
\* (list empty, count 0), initialization fails and the sysfs group is never
\* created.
C15_ScanFailureDiscardsBlocks ==
    [][/\ ScanAllocFails =>
             /\ hidden_blocks' = <<>>
             /\ hidden_blocks_cnt' = 0
             /\ last'.op = "init"
             /\ last'.rc = "ENOMEM"
             /\ ~sysfs_group'
       /\ pc = "failed" => (pc' = "failed" /\ ~sysfs_group')]_vars

\* The allocation failed with two blocks or more already on the list.
C15_Witness ==
    /\ pc = "failed"
    /\ last.out = <<"Failed to search for hidden memory blocks">>
    /\ Cardinality(free_reported) >= 3
    /\ hidden_blocks = <<>>
    /\ hidden_blocks_cnt = 0

\* C16: when an allocation fails while either builder adds ranges, the build
\* stops, the error is returned and the Range Map is empty; a map holding
\* only some of the provider's entries is never seen by the scanner or by a
\* listing.
C16_BuildIsAllOrNothing ==
    [][/\ pc = "start" =>
             \/ /\ pc' = "failed"
                /\ ranges' = <<>>
                /\ last'.rc # "0"
                /\ ~sysfs_group'
             \/ /\ pc' = "scan"
                /\ Len(ranges') = Len(Reported)
       /\ pc' \in {"scan", "live"} => Len(ranges') = Len(Reported)]_vars

\* The builder failed on a provider with two entries to add.
C16_Witness ==
    /\ pc = "failed"
    /\ last.rc = "ENOMEM"
    /\ last.out \in {<<"Failed to read efi.memmap entries">>,
                     <<"Failed to parse device-tree /memory entries">>}
    /\ Len(Reported) = 2
    /\ ranges = <<>>

\* C17: hidden_blocks_cnt is the number of elements of hidden_blocks in
\* every reachable state.
C17_CountIsListLength == hidden_blocks_cnt = Len(hidden_blocks)

\* C18: with two scavenge calls running concurrently, every block is handed
\* to the registration call at most once.
C18_RegisteredAtMostOnce == \A id \in DOMAIN attempts : attempts[id] <= 1

\* C19: a scavenge with a valid size on an empty list pops nothing, makes no
\* registration call, returns success and leaves unloadable unchanged; so
\* unloadable turns false only in a probe or in a scavenge that popped a
\* block.
C19_EmptyScavengeChangesNothing ==
    [][/\ (ValidScavenge(last') /\ hidden_blocks = <<>>) =>
             /\ last'.rc = "count"
             /\ last'.calls = <<>>
             /\ UNCHANGED <<hidden_blocks, hidden_blocks_cnt, unloadable,
                            tracked, attempts>>
       /\ (unloadable /\ ~unloadable') =>
             \/ last'.op = "probe"
             \/ last'.op = "scavenge" /\ last'.calls # <<>>]_vars

\* A valid scavenge has returned on an empty list and the module can still
\* be unloaded.
C19_Witness ==
    /\ pc = "live"
    /\ hidden_blocks = <<>>
    /\ ValidScavenge(last)
    /\ last.rc = "count"
    /\ last.calls = <<>>
    /\ unloadable

\* C20: after an initialization that failed, at whichever step, the Range
\* Map and the list of hidden blocks are empty and there is no sysfs entry.
C20_FailedInitKeepsNothing ==
    pc = "failed" =>
        /\ ranges = <<>>
        /\ hidden_blocks = <<>>
        /\ hidden_blocks_cnt = 0
        /\ ~sysfs_group
        /\ ~memscav_kobj
====
